---- MODULE Spec2Model ----
(***************************************************************************)
(* Model of pkg/whatsapp/catalog.go: the seven catalog operations of the   *)
(* WhatsApp client (CreateCatalog, ListCatalogs, DeleteCatalog,            *)
(* ListCatalogProducts, CreateProduct, UpdateProduct, DeleteProduct).      *)
(*                                                                         *)
(* A Go string is a sequence of one-character strings, so that formatting  *)
(* (strconv.FormatInt, fmt.Sprintf, url.Values.Encode) is computed and not *)
(* assumed.  A map[string]string is a function from its keys (the literal  *)
(* keys of the source) to such strings.  A response body is an abstract    *)
(* JSON document or the mark of bytes that are not JSON.                   *)
(*                                                                         *)
(* Every caller (goroutine) owns one slot: it invokes an operation, the    *)
(* handler builds its request and blocks in doRequest, the transport       *)
(* returns and the handler runs to its return statement, and the caller    *)
(* collects the result.                                                    *)
(***************************************************************************)
EXTENDS Integers, Sequences, FiniteSets, TLC

VARIABLES
    client,   \* the Client the methods are called on (its base URL)
    pc,       \* per caller: "idle", "waiting" (inside doRequest), "done"
    call,     \* per caller: the operation invoked and its arguments
    sent,     \* per caller: the requests the current call handed to doRequest
    resp,     \* per caller: what doRequest returned (respBody, err)
    ret,      \* per caller: what the operation returned (value, error)
    decoded   \* per caller: whether the call ran json.Unmarshal

vars == <<client, pc, call, sent, resp, ret, decoded>>

----------------------------------------------------------------------------
(* Bounds of the model *)

NumCallers == 2
MaxPrice == 1

Callers == 1..NumCallers

----------------------------------------------------------------------------
(* Strings *)

EmptyString == <<>>

Digits == <<"0", "1", "2", "3", "4", "5", "6", "7", "8", "9">>

RECURSIVE formatBits(_, _)
formatBits(u, base) ==
    IF u < base
      THEN <<Digits[u + 1]>>
      ELSE formatBits(u \div base, base) \o <<Digits[(u % base) + 1]>>

\* A formatter for an amount in major units with two decimals ("19.99").
FormatIntMajorUnits(i, base) ==
    LET a == IF i < 0 THEN -i ELSE i
    IN  (IF i < 0 THEN <<"-">> ELSE <<>>)
          \o formatBits(a \div 100, base) \o <<".">>
          \o <<Digits[((a % 100) \div 10) + 1], Digits[(a % 10) + 1]>>

\* strconv.FormatInt(i, base)
FormatInt(i, base) ==
    IF i < 0 THEN <<"-">> \o formatBits(-i, base) ELSE formatBits(i, base)

----------------------------------------------------------------------------
(* Inputs: accounts, identifiers, names, products *)

Accounts ==
    { [APIVersion |-> <<"v", "2", "1">>, BusinessID |-> <<"b", "1">>, AccessToken |-> <<"t", "1">>],
      [APIVersion |-> <<"v", "1", "8">>, BusinessID |-> <<"b", "2">>, AccessToken |-> <<"t", "2">>] }

\* The base URL of the client: the default one, or one set on the client.
DefaultBaseURL == <<"h", "t", "t", "p", "s", ":", "/", "/", "g">>
OtherBaseURL == <<"h", "t", "t", "p", ":", "/", "/", "t">>
BaseURLs == {DefaultBaseURL, OtherBaseURL}

IDs == { <<"c", "1">>, <<"4", "2">> }

CatalogNames == { EmptyString, <<"S", "h", "o", "p">> }

Prices == ((-MaxPrice)..MaxPrice) \cup {10, 1999, -120}

Texts(v) == {EmptyString, v}

\* ProductInput
Products ==
    [Name : Texts(<<"S", "h", "i", "r", "t">>), Price : Prices, Currency : Texts(<<"U", "S", "D">>),
     URL : Texts(<<"h", "t", "t", "p", "s", ":", "/", "/", "x", "/", "y">>), ImageURL : Texts(<<"h", "t", "t", "p", "s", ":", "/", "/", "x", "/", "i", ".", "p", "n", "g">>),
     RetailerID : Texts(<<"s", "k", "u", "-", "1">>), Description : Texts(<<"R", "e", "d">>)]

\* The arguments an operation does not take.
NoName == EmptyString
NoID == EmptyString
NoProduct ==
    [Name |-> EmptyString, Price |-> 0, Currency |-> EmptyString,
     URL |-> EmptyString, ImageURL |-> EmptyString,
     RetailerID |-> EmptyString, Description |-> EmptyString]

----------------------------------------------------------------------------
(* URLs *)

\* c.getBaseURL()
getBaseURL == client.baseURL

\* fmt.Sprintf("%s/%s/%s/owned_product_catalogs", ...)
buildCatalogsURL(account) ==
    getBaseURL \o <<"/">> \o account.APIVersion \o <<"/">> \o account.BusinessID
        \o <<"/", "o", "w", "n", "e", "d", "_", "p", "r", "o", "d", "u", "c", "t", "_", "c", "a", "t", "a", "l", "o", "g", "s">>

\* fmt.Sprintf("%s/%s/%s/products", ...)
buildCatalogProductsURL(account, catalogID) ==
    getBaseURL \o <<"/">> \o account.APIVersion \o <<"/">> \o catalogID
        \o <<"/", "p", "r", "o", "d", "u", "c", "t", "s">>

\* fmt.Sprintf("%s/%s/%s", ...)
buildProductURL(account, productID) ==
    getBaseURL \o <<"/">> \o account.APIVersion \o <<"/">> \o productID

\* The value of the "fields" parameter of ListCatalogProducts.
ProductFields ==
    <<"i", "d", ",", "n", "a", "m", "e", ",", "p", "r", "i", "c", "e", ",", "c", "u", "r", "r", "e", "n", "c", "y", ",", "u", "r", "l", ",", "i", "m", "a", "g", "e", "_", "u", "r", "l", ",", "r", "e", "t", "a", "i", "l", "e", "r", "_", "i", "d", ",", "d", "e", "s", "c", "r", "i", "p", "t", "i", "o", "n">>

\* url.QueryEscape on one character: letters, digits, '-', '_', '.', '~' stay,
\* a space becomes '+', anything else its percent-encoding.
EscapeChar(c) ==
    CASE c = "," -> <<"%", "2", "C">>
      [] c = " " -> <<"+">>
      [] c = "=" -> <<"%", "3", "D">>
      [] c = "&" -> <<"%", "2", "6">>
      [] c = "?" -> <<"%", "3", "F">>
      [] c = "/" -> <<"%", "2", "F">>
      [] OTHER -> <<c>>

RECURSIVE QueryEscape(_)
QueryEscape(s) ==
    IF s = <<>> THEN <<>> ELSE EscapeChar(Head(s)) \o QueryEscape(Tail(s))

\* url.Values{}.Add(key, value).Encode() for a single parameter
Encode(key, value) == QueryEscape(key) \o <<"=">> \o QueryEscape(value)

----------------------------------------------------------------------------
(* Request bodies: map[string]string *)

\* make(map[string]string)
EmptyBody == [k \in {} |-> EmptyString]

\* body[k] = v
Put(body, k, v) ==
    [x \in (DOMAIN body) \cup {k} |-> IF x = k THEN v ELSE body[x]]

\* map[string]string{"name": name}
CreateCatalogBody(name) == [k \in {"name"} |-> name]

\* A product body that leaves out the price when it is not positive.
CreateProductBodyOmitPrice(product) ==
    LET literal ==
          [k \in {"name", "currency", "url", "image_url", "retailer_id"}
                   \cup (IF product.Price > 0 THEN {"price"} ELSE {}) |->
              CASE k = "name" -> product.Name
                [] k = "price" -> FormatInt(product.Price, 10)
                [] k = "currency" -> product.Currency
                [] k = "url" -> product.URL
                [] k = "image_url" -> product.ImageURL
                [] k = "retailer_id" -> product.RetailerID]
    IN  IF product.Description # EmptyString
          THEN Put(literal, "description", product.Description)
          ELSE literal

\* The body CreateProduct builds: the map literal, then the description.
CreateProductBody(product) ==
    LET priceStr == FormatInt(product.Price, 10)
        literal ==
          [k \in {"name", "price", "currency", "url", "image_url", "retailer_id"} |->
              CASE k = "name" -> product.Name
                [] k = "price" -> priceStr
                [] k = "currency" -> product.Currency
                [] k = "url" -> product.URL
                [] k = "image_url" -> product.ImageURL
                [] k = "retailer_id" -> product.RetailerID]
    IN  IF product.Description # EmptyString
          THEN Put(literal, "description", product.Description)
          ELSE literal

\* An update body that starts from the create body.
UpdateProductBodyAllFields(product) == CreateProductBody(product)

\* The body UpdateProduct builds: one conditional assignment per field.
UpdateProductBody(product) ==
    LET b0 == EmptyBody
        b1 == IF product.Name # EmptyString
                THEN Put(b0, "name", product.Name) ELSE b0
        b2 == IF product.Price > 0
                THEN Put(b1, "price", FormatInt(product.Price, 10)) ELSE b1
        b3 == IF product.Currency # EmptyString
                THEN Put(b2, "currency", product.Currency) ELSE b2
        b4 == IF product.URL # EmptyString
                THEN Put(b3, "url", product.URL) ELSE b3
        b5 == IF product.ImageURL # EmptyString
                THEN Put(b4, "image_url", product.ImageURL) ELSE b4
        b6 == IF product.Description # EmptyString
                THEN Put(b5, "description", product.Description) ELSE b5
    IN  b6

----------------------------------------------------------------------------
(* Requests: the arguments of doRequest(ctx, method, url, body, accessToken) *)

\* http.MethodGet, http.MethodPost, http.MethodDelete
MethodGet == "GET"
MethodPost == "POST"
MethodDelete == "DELETE"

\* A request with a body map.
WithBody(method, url, body, token) ==
    [method |-> method, url |-> url, hasBody |-> TRUE, body |-> body, token |-> token]

\* A request whose body argument is nil.
NilBody(method, url, token) ==
    [method |-> method, url |-> url, hasBody |-> FALSE, body |-> EmptyBody, token |-> token]

CreateCatalogRequest(account, name) ==
    WithBody(MethodPost, buildCatalogsURL(account), CreateCatalogBody(name),
             account.AccessToken)

ListCatalogsRequest(account) ==
    NilBody(MethodGet, buildCatalogsURL(account), account.AccessToken)

DeleteCatalogRequest(account, catalogID) ==
    NilBody(MethodDelete,
            getBaseURL \o <<"/">> \o account.APIVersion \o <<"/">> \o catalogID,
            account.AccessToken)

\* A products URL without the fields parameter.
ListCatalogProductsURLBare(account, catalogID) ==
    buildCatalogProductsURL(account, catalogID)

\* The URL of ListCatalogProducts: the collection, "?", the encoded parameters.
ListCatalogProductsURL(account, catalogID) ==
    buildCatalogProductsURL(account, catalogID) \o <<"?">>
        \o Encode(<<"f", "i", "e", "l", "d", "s">>, ProductFields)

ListCatalogProductsRequest(account, catalogID) ==
    NilBody(MethodGet, ListCatalogProductsURL(account, catalogID),
            account.AccessToken)

CreateProductRequest(account, catalogID, product) ==
    WithBody(MethodPost, buildCatalogProductsURL(account, catalogID),
             CreateProductBody(product), account.AccessToken)

UpdateProductRequest(account, productID, product) ==
    WithBody(MethodPost, buildProductURL(account, productID),
             UpdateProductBody(product), account.AccessToken)

DeleteProductRequest(account, productID) ==
    NilBody(MethodDelete, buildProductURL(account, productID),
            account.AccessToken)

Ops ==
    {"CreateCatalog", "ListCatalogs", "DeleteCatalog", "ListCatalogProducts",
     "CreateProduct", "UpdateProduct", "DeleteProduct"}

\* An invocation: the method called and its arguments.
Invocation(o, account, name, id, product) ==
    [op |-> o, account |-> account, name |-> name, id |-> id, product |-> product]

\* The request an invocation hands to doRequest.
RequestOf(c) ==
    CASE c.op = "CreateCatalog" -> CreateCatalogRequest(c.account, c.name)
      [] c.op = "ListCatalogs" -> ListCatalogsRequest(c.account)
      [] c.op = "DeleteCatalog" -> DeleteCatalogRequest(c.account, c.id)
      [] c.op = "ListCatalogProducts" -> ListCatalogProductsRequest(c.account, c.id)
      [] c.op = "CreateProduct" -> CreateProductRequest(c.account, c.id, c.product)
      [] c.op = "UpdateProduct" -> UpdateProductRequest(c.account, c.id, c.product)
      [] c.op = "DeleteProduct" -> DeleteProductRequest(c.account, c.id)

\* A handler that sends nothing when an update has nothing to change.
doRequestCallsSkipEmptyUpdate(c) ==
    IF c.op = "UpdateProduct" /\ UpdateProductBody(c.product) = EmptyBody
      THEN <<>>
      ELSE <<RequestOf(c)>>

\* The doRequest calls one invocation makes, in order: each method body holds
\* one call of doRequest, outside any loop.
doRequestCalls(c) == <<RequestOf(c)>>

----------------------------------------------------------------------------
(* Errors *)

\* nil
NoErr == [kind |-> "nil", cause |-> "nil"]

\* The errors doRequest returns: a transport failure, a non-success status.
TimeoutError == [kind |-> "request", cause |-> "timeout"]
StatusError == [kind |-> "request", cause |-> "status 400"]

\* The errors of json.Unmarshal.
SyntaxError == [kind |-> "json", cause |-> "SyntaxError"]
UnmarshalTypeError == [kind |-> "json", cause |-> "UnmarshalTypeError"]

\* fmt.Errorf("failed to parse response: %w", err)
Errorf(err) == [kind |-> "failed to parse response", cause |-> err.cause]

----------------------------------------------------------------------------
(* Response bodies: JSON documents, and bytes that are not JSON *)

NotJSON(bytes) == [t |-> "malformed", v |-> bytes]
JNull == [t |-> "null", v |-> <<>>]
JNumber == [t |-> "number", v |-> <<"7">>]
JBool == [t |-> "bool", v |-> <<"true">>]
JString(s) == [t |-> "string", v |-> s]
JArray(items) == [t |-> "array", v |-> items]
\* An object is the sequence of its members [key, value].
JObject(members) == [t |-> "object", v |-> members]

\* Whether the object has a member of that key.
HasMember(doc, key) == \E i \in 1..Len(doc.v) : doc.v[i].key = key

\* The member json.Unmarshal keeps for a key: the last one of that key.
Member(doc, key) ==
    LET last == CHOOSE i \in 1..Len(doc.v) :
                  /\ doc.v[i].key = key
                  /\ \A j \in (i + 1)..Len(doc.v) : doc.v[j].key # key
    IN  doc.v[last].value

\* Decoding one value into a string field: [err, value].
DecodeString(val) ==
    CASE val.t = "string" -> [err |-> NoErr, value |-> val.v]
      [] val.t = "null" -> [err |-> NoErr, value |-> EmptyString]
      [] OTHER -> [err |-> UnmarshalTypeError, value |-> EmptyString]

\* Decoding a document into a struct whose one known field is ID string
\* `json:"id"`: [err, ID].
DecodeIDStruct(doc) ==
    CASE doc.t = "null" -> [err |-> NoErr, ID |-> EmptyString]
      [] doc.t = "object" ->
           IF HasMember(doc, "id")
             THEN LET d == DecodeString(Member(doc, "id"))
                  IN  [err |-> d.err, ID |-> d.value]
             ELSE [err |-> NoErr, ID |-> EmptyString]
      [] OTHER -> [err |-> UnmarshalTypeError, ID |-> EmptyString]

\* An unmarshal that demands the id member.
UnmarshalIDStrict(doc) ==
    IF doc.t = "malformed" \/ (doc.t = "object" /\ ~HasMember(doc, "id"))
      THEN [err |-> SyntaxError, ID |-> EmptyString]
      ELSE DecodeIDStruct(doc)

\* json.Unmarshal(respBody, &resp) for resp struct { ID string `json:"id"` }:
\* the bytes are checked to be JSON before anything is decoded.
UnmarshalID(doc) ==
    IF doc.t = "malformed"
      THEN [err |-> SyntaxError, ID |-> EmptyString]
      ELSE DecodeIDStruct(doc)

\* A nil slice, and a slice of items.
NilList == [isNil |-> TRUE, items |-> <<>>]
List(items) == [isNil |-> FALSE, items |-> items]

\* Decoding the items of a "data" array (CatalogInfo, ProductInfo: the ID is
\* kept here): an error is reported if any item fails, every item is stored.
DecodeItems(arr) ==
    LET each == [i \in 1..Len(arr.v) |-> DecodeIDStruct(arr.v[i])]
        bad == {i \in 1..Len(arr.v) : each[i].err # NoErr}
    IN  [err |-> IF bad = {} THEN NoErr ELSE UnmarshalTypeError,
         Data |-> List([i \in 1..Len(arr.v) |-> each[i].ID])]

\* Decoding a JSON document into CatalogListResponse or ProductListResponse,
\* the {"data": [...]} envelopes: [err, Data].
DecodeListEnvelope(doc) ==
    CASE doc.t = "null" -> [err |-> NoErr, Data |-> NilList]
      [] doc.t = "object" ->
           IF ~HasMember(doc, "data")
             THEN [err |-> NoErr, Data |-> NilList]
             ELSE LET d == Member(doc, "data")
                  IN  CASE d.t = "null" -> [err |-> NoErr, Data |-> NilList]
                        [] d.t = "array" -> DecodeItems(d)
                        [] OTHER -> [err |-> UnmarshalTypeError, Data |-> NilList]
      [] OTHER -> [err |-> UnmarshalTypeError, Data |-> NilList]

\* json.Unmarshal(respBody, &resp) for a list response: the bytes are checked
\* to be JSON before anything is decoded.
UnmarshalList(doc) ==
    IF doc.t = "malformed"
      THEN [err |-> SyntaxError, Data |-> NilList]
      ELSE DecodeListEnvelope(doc)

\* Decoding a JSON document into ProductCreateResponse: [err, ID].
DecodeProductCreateResponse(doc) == DecodeIDStruct(doc)

\* json.Unmarshal(respBody, &resp) for ProductCreateResponse.
UnmarshalProductCreateResponse(doc) ==
    IF doc.t = "malformed"
      THEN [err |-> SyntaxError, ID |-> EmptyString]
      ELSE DecodeProductCreateResponse(doc)

----------------------------------------------------------------------------
(* What doRequest returns: (respBody, err) *)

Response(body, err) == [body |-> body, err |-> err]

IdDoc(id) == JObject(<< [key |-> "id", value |-> JString(id)] >>)
DataDoc(items) == JObject(<< [key |-> "data", value |-> JArray(items)] >>)

\* The documents a successful request may come back with (a tuple: JSON
\* values of different types are not compared with each other).
Documents ==
    << NotJSON(<<>>), NotJSON(<<"{">>),
      JNull, JNumber, JString(<<"o", "k">>), JArray(<<>>),
      JObject(<<>>),
      IdDoc(<<"p", "i", "d", "_", "1">>),
      IdDoc(EmptyString),
      JObject(<< [key |-> "id", value |-> JNumber] >>),
      JObject(<< [key |-> "id", value |-> JNull] >>),
      JObject(<< [key |-> "id", value |-> JString(<<"a">>)],
                 [key |-> "id", value |-> JString(<<"b">>)] >>),
      JObject(<< [key |-> "success", value |-> JBool] >>),
      JObject(<< [key |-> "error", value |-> JObject(<< [key |-> "code", value |-> JNumber] >>)] >>),
      DataDoc(<<>>),
      DataDoc(<< IdDoc(<<"c", "1">>) >>),
      DataDoc(<< IdDoc(<<"c", "1">>), IdDoc(<<"4", "2">>) >>),
      DataDoc(<< JNumber >>),
      JObject(<< [key |-> "data", value |-> JNull] >>),
      JObject(<< [key |-> "data", value |-> JString(<<"x">>)] >>),
      JObject(<< [key |-> "id", value |-> JString(<<"c", "1">>)],
                 [key |-> "data", value |-> JArray(<<>>)] >>) >>

\* With an error doRequest may still hand back bytes; no operation reads them.
FailedResponses ==
    << Response(NotJSON(<<>>), TimeoutError),
       Response(NotJSON(<<>>), StatusError),
       Response(Documents[8], TimeoutError),
       Response(Documents[8], StatusError) >>

Responses ==
    [i \in 1..Len(Documents) |-> Response(Documents[i], NoErr)] \o FailedResponses

----------------------------------------------------------------------------
(* The operations after doRequest returned r: [val, err, decoded] *)

\* The value of an operation that returns only an error.
Nothing == [nothing |-> TRUE]

Outcome(val, err, dec) == [val |-> val, err |-> err, decoded |-> dec]

CreateCatalogReturn(r) ==
    IF r.err # NoErr
      THEN Outcome(EmptyString, r.err, FALSE)
      ELSE LET u == UnmarshalID(r.body)
           IN  IF u.err # NoErr
                 THEN Outcome(EmptyString, Errorf(u.err), TRUE)
                 ELSE Outcome(u.ID, NoErr, TRUE)

\* A ListCatalogs that drops the error of json.Unmarshal.
ListCatalogsReturnUnchecked(r) ==
    IF r.err # NoErr
      THEN Outcome(NilList, r.err, FALSE)
      ELSE Outcome(UnmarshalList(r.body).Data, NoErr, TRUE)

ListCatalogsReturn(r) ==
    IF r.err # NoErr
      THEN Outcome(NilList, r.err, FALSE)
      ELSE LET u == UnmarshalList(r.body)
           IN  IF u.err # NoErr
                 THEN Outcome(NilList, Errorf(u.err), TRUE)
                 ELSE Outcome(u.Data, NoErr, TRUE)

\* A DeleteCatalog that wraps the transport's error.
DeleteCatalogReturnWrapped(r) ==
    Outcome(Nothing, IF r.err # NoErr THEN Errorf(r.err) ELSE NoErr, FALSE)

DeleteCatalogReturn(r) == Outcome(Nothing, r.err, FALSE)

ListCatalogProductsReturn(r) ==
    IF r.err # NoErr
      THEN Outcome(NilList, r.err, FALSE)
      ELSE LET u == UnmarshalList(r.body)
           IN  IF u.err # NoErr
                 THEN Outcome(NilList, Errorf(u.err), TRUE)
                 ELSE Outcome(u.Data, NoErr, TRUE)

CreateProductReturn(r) ==
    IF r.err # NoErr
      THEN Outcome(EmptyString, r.err, FALSE)
      ELSE LET u == UnmarshalProductCreateResponse(r.body)
           IN  IF u.err # NoErr
                 THEN Outcome(EmptyString, Errorf(u.err), TRUE)
                 ELSE Outcome(u.ID, NoErr, TRUE)

UpdateProductReturn(r) == Outcome(Nothing, r.err, FALSE)

\* A DeleteProduct that parses the response it was sent.
DeleteProductReturnParsing(r) ==
    IF r.err # NoErr
      THEN Outcome(Nothing, r.err, FALSE)
      ELSE LET u == UnmarshalID(r.body)
           IN  Outcome(Nothing, IF u.err # NoErr THEN Errorf(u.err) ELSE NoErr, TRUE)

DeleteProductReturn(r) == Outcome(Nothing, r.err, FALSE)

\* The return statement an operation reaches once doRequest returned r.
ReturnOf(o, r) ==
    CASE o = "CreateCatalog" -> CreateCatalogReturn(r)
      [] o = "ListCatalogs" -> ListCatalogsReturn(r)
      [] o = "DeleteCatalog" -> DeleteCatalogReturn(r)
      [] o = "ListCatalogProducts" -> ListCatalogProductsReturn(r)
      [] o = "CreateProduct" -> CreateProductReturn(r)
      [] o = "UpdateProduct" -> UpdateProductReturn(r)
      [] o = "DeleteProduct" -> DeleteProductReturn(r)

\* The zero result of an operation.
ZeroResult(o) ==
    CASE o \in {"CreateCatalog", "CreateProduct"} -> EmptyString
      [] o \in {"ListCatalogs", "ListCatalogProducts"} -> NilList
      [] OTHER -> Nothing

----------------------------------------------------------------------------
(* State machine *)

NoCall == Invocation("none", CHOOSE a \in Accounts : TRUE, NoName, NoID, NoProduct)
NoResponse == Response(NotJSON(<<>>), NoErr)
NoReturn == [val |-> Nothing, err |-> NoErr]

Init ==
    /\ client \in [baseURL : BaseURLs]
    /\ pc = [p \in Callers |-> "idle"]
    /\ call = [p \in Callers |-> NoCall]
    /\ sent = [p \in Callers |-> <<>>]
    /\ resp = [p \in Callers |-> NoResponse]
    /\ ret = [p \in Callers |-> NoReturn]
    /\ decoded = [p \in Callers |-> FALSE]

\* An invocation that leaves a host chosen for its account's API version on
\* the client, where later calls find it.
InvokeKeepingHost(p, c) ==
    /\ pc[p] = "idle"
    /\ pc' = [pc EXCEPT ![p] = "waiting"]
    /\ call' = [call EXCEPT ![p] = c]
    /\ sent' = [sent EXCEPT ![p] = doRequestCalls(c)]
    /\ client' = [client EXCEPT !.baseURL =
                    IF c.account.APIVersion = <<"v", "1", "8">>
                      THEN OtherBaseURL ELSE DefaultBaseURL]
    /\ UNCHANGED <<resp, ret, decoded>>

\* Caller p invokes an operation: the method builds its URL and body from its
\* arguments and blocks in doRequest.
Invoke(p, c) ==
    /\ pc[p] = "idle"
    /\ pc' = [pc EXCEPT ![p] = "waiting"]
    /\ call' = [call EXCEPT ![p] = c]
    /\ sent' = [sent EXCEPT ![p] = doRequestCalls(c)]
    /\ UNCHANGED <<client, resp, ret, decoded>>

CreateCatalog(p, account, name) ==
    Invoke(p, Invocation("CreateCatalog", account, name, NoID, NoProduct))

ListCatalogs(p, account) ==
    Invoke(p, Invocation("ListCatalogs", account, NoName, NoID, NoProduct))

DeleteCatalog(p, account, catalogID) ==
    Invoke(p, Invocation("DeleteCatalog", account, NoName, catalogID, NoProduct))

ListCatalogProducts(p, account, catalogID) ==
    Invoke(p, Invocation("ListCatalogProducts", account, NoName, catalogID, NoProduct))

CreateProduct(p, account, catalogID, product) ==
    Invoke(p, Invocation("CreateProduct", account, NoName, catalogID, product))

UpdateProduct(p, account, productID, product) ==
    Invoke(p, Invocation("UpdateProduct", account, NoName, productID, product))

DeleteProduct(p, account, productID) ==
    Invoke(p, Invocation("DeleteProduct", account, NoName, productID, NoProduct))

\* doRequest returns r to the method blocked in it, which runs to its return.
Return(p, r) ==
    /\ pc[p] = "waiting"
    /\ LET out == ReturnOf(call[p].op, r)
       IN  /\ ret' = [ret EXCEPT ![p] = [val |-> out.val, err |-> out.err]]
           /\ decoded' = [decoded EXCEPT ![p] = out.decoded]
    /\ resp' = [resp EXCEPT ![p] = r]
    /\ pc' = [pc EXCEPT ![p] = "done"]
    /\ UNCHANGED <<client, call, sent>>

\* The caller takes the result; its next call starts afresh.
Collect(p) ==
    /\ pc[p] = "done"
    /\ pc' = [pc EXCEPT ![p] = "idle"]
    /\ call' = [call EXCEPT ![p] = NoCall]
    /\ sent' = [sent EXCEPT ![p] = <<>>]
    /\ resp' = [resp EXCEPT ![p] = NoResponse]
    /\ ret' = [ret EXCEPT ![p] = NoReturn]
    /\ decoded' = [decoded EXCEPT ![p] = FALSE]
    /\ UNCHANGED client

\* The calls of caller p, every input. (The guard of Invoke is stated first,
\* so that the inputs are enumerated only for a caller that can call.)
Calls(p) ==
    /\ pc[p] = "idle"
    /\ \/ \E a \in Accounts, n \in CatalogNames : CreateCatalog(p, a, n)
       \/ \E a \in Accounts : ListCatalogs(p, a)
       \/ \E a \in Accounts, id \in IDs : DeleteCatalog(p, a, id)
       \/ \E a \in Accounts, id \in IDs : ListCatalogProducts(p, a, id)
       \/ \E a \in Accounts, id \in IDs, x \in Products : CreateProduct(p, a, id, x)
       \/ \E a \in Accounts, id \in IDs, x \in Products : UpdateProduct(p, a, id, x)
       \/ \E a \in Accounts, id \in IDs : DeleteProduct(p, a, id)

\* One caller.
Next ==
    \E p \in {1} :
        \/ Calls(p)
        \/ \E i \in DOMAIN Responses : Return(p, Responses[i])
        \/ Collect(p)

Spec == Init /\ [][Next]_vars

\* The inputs of the concurrent callers.
ConcIDs == { <<"c", "1">> }
ConcProduct ==
    [Name |-> <<"S">>, Price |-> 1999, Currency |-> <<"U">>, URL |-> <<"u">>,
     ImageURL |-> <<"i">>, RetailerID |-> <<"r">>, Description |-> <<"d">>]
ConcResponses ==
    << Response(NotJSON(<<>>), TimeoutError),
      Response(NotJSON(<<"{">>), NoErr),
      Response(JObject(<< [key |-> "id", value |-> JString(<<"c", "1">>)],
                          [key |-> "data", value |-> JArray(<<>>)] >>), NoErr) >>

\* The calls of caller p among several.
ConcCalls(p) ==
    /\ pc[p] = "idle"
    /\ \/ \E a \in Accounts : CreateCatalog(p, a, <<"S", "h", "o", "p">>)
       \/ \E a \in Accounts : ListCatalogs(p, a)
       \/ \E a \in Accounts, id \in ConcIDs : DeleteCatalog(p, a, id)
       \/ \E a \in Accounts, id \in ConcIDs : ListCatalogProducts(p, a, id)
       \/ \E a \in Accounts, id \in ConcIDs : CreateProduct(p, a, id, ConcProduct)
       \/ \E a \in Accounts, id \in ConcIDs, x \in {NoProduct, ConcProduct} :
              UpdateProduct(p, a, id, x)
       \/ \E a \in Accounts, id \in ConcIDs : DeleteProduct(p, a, id)

\* Several callers at once, their steps interleaved.
NextConc ==
    \E p \in Callers :
        \/ ConcCalls(p)
        \/ \E i \in DOMAIN ConcResponses : Return(p, ConcResponses[i])
        \/ Collect(p)

\* The callers share a client of the default base URL.
InitConc == Init /\ client.baseURL = DefaultBaseURL

SpecConc == InitConc /\ [][NextConc]_vars

----------------------------------------------------------------------------
(* Properties *)

Active(p) == pc[p] # "idle"
Done(p) == pc[p] = "done"
IsOp(p, o) == Active(p) /\ call[p].op = o
IsDecodeError(err) == err.kind = "failed to parse response"

UpdateKeys == {"name", "price", "currency", "url", "image_url", "description"}
CreateKeys == {"name", "price", "currency", "url", "image_url", "retailer_id"}

\* C1: the body UpdateProduct hands to doRequest has no key name, currency,
\* url, image_url or description whose input field is the empty string, no key
\* price when the input price is <= 0, and no key outside those six: never
\* retailer_id.
C1_UpdateOmitsEmptyFields ==
    \A p \in Callers :
        IsOp(p, "UpdateProduct") =>
            \A i \in 1..Len(sent[p]) :
                LET keys == DOMAIN sent[p][i].body
                    x == call[p].product
                IN  /\ sent[p][i].hasBody
                    /\ x.Name = EmptyString => "name" \notin keys
                    /\ x.Currency = EmptyString => "currency" \notin keys
                    /\ x.URL = EmptyString => "url" \notin keys
                    /\ x.ImageURL = EmptyString => "image_url" \notin keys
                    /\ x.Description = EmptyString => "description" \notin keys
                    /\ x.Price <= 0 => "price" \notin keys
                    /\ keys \subseteq UpdateKeys
                    /\ "retailer_id" \notin keys

\* An update with an empty name, a price below zero and a retailer ID was sent:
\* its body holds only the currency.
C1_Witness ==
    \E p \in Callers :
        /\ IsOp(p, "UpdateProduct")
        /\ call[p].product.Name = EmptyString
        /\ call[p].product.Price < 0
        /\ call[p].product.RetailerID # EmptyString
        /\ call[p].product.Currency # EmptyString
        /\ Len(sent[p]) = 1
        /\ DOMAIN sent[p][1].body = {"currency"}

IsDigit(c) == \E d \in 1..10 : Digits[d] = c
DigitValue(c) == (CHOOSE d \in 1..10 : Digits[d] = c) - 1

\* The number a string of digits writes in base 10.
RECURSIVE DecimalValue(_)
DecimalValue(s) ==
    IF s = <<>> THEN 0
    ELSE 10 * DecimalValue(SubSeq(s, 1, Len(s) - 1)) + DigitValue(s[Len(s)])

\* A base-10 integer string: digits, after an optional minus sign; no point,
\* no exponent, no leading zero.
IsDecimalInteger(s) ==
    LET ds == IF s # <<>> /\ s[1] = "-" THEN Tail(s) ELSE s
    IN  /\ ds # <<>>
        /\ \A i \in 1..Len(ds) : IsDigit(ds[i])
        /\ Len(ds) > 1 => ds[1] # "0"

ParseDecimal(s) ==
    IF s[1] = "-" THEN -DecimalValue(Tail(s)) ELSE DecimalValue(s)

\* C2: wherever a body of CreateProduct or UpdateProduct holds the key price,
\* its value is the base-10 integer string of the input price: parsing it gives
\* the input price back, and for a price > 0 it is made of digits only.
C2_PriceIsDecimalString ==
    \A p \in Callers :
        (IsOp(p, "CreateProduct") \/ IsOp(p, "UpdateProduct")) =>
            \A i \in 1..Len(sent[p]) :
                "price" \in DOMAIN sent[p][i].body =>
                    LET str == sent[p][i].body["price"]
                        price == call[p].product.Price
                    IN  /\ IsDecimalInteger(str)
                        /\ ParseDecimal(str) = price
                        /\ price > 0 => \A k \in 1..Len(str) : IsDigit(str[k])

\* A product of price 1999 was created: the body says "1999".
C2_Witness ==
    \E p \in Callers :
        /\ IsOp(p, "CreateProduct")
        /\ call[p].product.Price = 1999
        /\ Len(sent[p]) = 1
        /\ sent[p][1].body["price"] = <<"1", "9", "9", "9">>

C4_AsStated ==
    \A p \in Callers :
        ( /\ IsOp(p, "CreateCatalog") /\ Done(p)
          /\ resp[p].err = NoErr
          /\ \/ resp[p].body.t = "malformed"
             \/ resp[p].body.t = "object" /\ ~HasMember(resp[p].body, "id") )
        => IsDecodeError(ret[p].err)

\* What json.Unmarshal rejects when it fills struct { ID string }: bytes that
\* are not JSON, a document that is neither an object nor null, an id that is
\* neither a string nor null.
RejectedAsID(doc) ==
    \/ doc.t = "malformed"
    \/ doc.t \notin {"object", "null"}
    \/ /\ doc.t = "object"
       /\ HasMember(doc, "id")
       /\ Member(doc, "id").t \notin {"string", "null"}

\* C4, amended: when doRequest succeeds, CreateCatalog returns a decode error
\* exactly when the bytes are not JSON, or the document is neither an object
\* nor null, or its id is neither a string nor null; an object without id
\* makes it return the empty ID and no error.
C4_DecodeErrorOnlyOnRejectedJSON ==
    \A p \in Callers :
        (IsOp(p, "CreateCatalog") /\ Done(p) /\ resp[p].err = NoErr) =>
            /\ IsDecodeError(ret[p].err) <=> RejectedAsID(resp[p].body)
            /\ ret[p].err # NoErr <=> IsDecodeError(ret[p].err)
            /\ (resp[p].body.t = "object" /\ ~HasMember(resp[p].body, "id"))
                 => (ret[p].err = NoErr /\ ret[p].val = EmptyString)

\* CreateCatalog got the empty object back and returned the empty ID.
C4_Witness ==
    \E p \in Callers :
        /\ IsOp(p, "CreateCatalog") /\ Done(p)
        /\ resp[p].err = NoErr
        /\ resp[p].body.t = "object"
        /\ Len(resp[p].body.v) = 0
        /\ ret[p].err = NoErr
        /\ ret[p].val = EmptyString

DecodingOps == {"CreateCatalog", "ListCatalogs", "ListCatalogProducts", "CreateProduct"}

\* C5: on the four decoding operations, when doRequest succeeds with bytes
\* that are not JSON, the call returns a decode error and the zero result.
C5_MalformedGivesDecodeError ==
    \A p \in Callers :
        ( /\ Done(p)
          /\ call[p].op \in DecodingOps
          /\ resp[p].err = NoErr
          /\ resp[p].body.t = "malformed" )
        => /\ IsDecodeError(ret[p].err)
           /\ ret[p].val = ZeroResult(call[p].op)

\* ListCatalogs got truncated bytes back and returned (nil, decode error).
C5_Witness ==
    \E p \in Callers :
        /\ IsOp(p, "ListCatalogs") /\ Done(p)
        /\ resp[p].err = NoErr
        /\ resp[p].body.t = "malformed"
        /\ resp[p].body.v = <<"{">>
        /\ IsDecodeError(ret[p].err)
        /\ ret[p].val = NilList

\* C6: when doRequest returns an error, the call returns that very error and
\* the zero result, and decodes nothing; so a call ends with no error, or with
\* an error and the zero result.
C6_RequestErrorPropagates ==
    \A p \in Callers :
        Done(p) =>
            /\ resp[p].err # NoErr =>
                 /\ ret[p].err = resp[p].err
                 /\ ret[p].val = ZeroResult(call[p].op)
                 /\ ~decoded[p]
            /\ ret[p].err # NoErr => ret[p].val = ZeroResult(call[p].op)

\* DeleteCatalog was answered with a status error and returned it.
C6_Witness ==
    \E p \in Callers :
        /\ IsOp(p, "DeleteCatalog") /\ Done(p)
        /\ resp[p].err = StatusError
        /\ ret[p].err = resp[p].err

\* C7: a call that is under way or has returned has handed exactly one request
\* to doRequest, whatever its input and whatever came back.
C7_ExactlyOneRequest ==
    \A p \in Callers : Active(p) => Len(sent[p]) = 1

\* An update of no field failed in the transport: one POST with an empty body
\* was sent, and nothing after it.
C7_Witness ==
    \E p \in Callers :
        /\ IsOp(p, "UpdateProduct") /\ Done(p)
        /\ call[p].product = NoProduct
        /\ resp[p].err # NoErr
        /\ Len(sent[p]) = 1
        /\ sent[p][1].method = MethodPost
        /\ sent[p][1].hasBody
        /\ sent[p][1].body = EmptyBody

\* What one caller's slot holds.
Slot(p) == <<pc[p], call[p], sent[p], resp[p], ret[p], decoded[p]>>

\* Two calls with the same arguments send the same request, and return the
\* same when they are answered the same; each call's request is the one its
\* arguments give and its result the one its response gives.
OwnArgumentsDecide ==
    /\ \A p \in Callers :
         /\ Active(p) => sent[p] = <<RequestOf(call[p])>>
         /\ Done(p) =>
              LET out == ReturnOf(call[p].op, resp[p])
              IN  ret[p] = [val |-> out.val, err |-> out.err]
    /\ \A p, q \in Callers :
         (Active(p) /\ Active(q) /\ call[p] = call[q]) =>
            /\ sent[p] = sent[q]
            /\ (Done(p) /\ Done(q) /\ resp[p].err = resp[q].err
                  /\ resp[p].body.t = resp[q].body.t
                  /\ resp[p].body.v = resp[q].body.v)
                 => ret[p] = ret[q]

\* A step of one caller leaves the client and every other caller's slot as
\* they are.
StepsAreLocal ==
    /\ client' = client
    /\ \A p, q \in Callers : (p # q /\ Slot(p)' # Slot(p)) => Slot(q)' = Slot(q)

\* C8: under every interleaving and after every sequence of earlier calls, a
\* call's request is decided by its own arguments and its result by the
\* response to it, and no step of a call touches the client or another call.
C8_CallsAreIndependent == [][StepsAreLocal]_vars /\ []OwnArgumentsDecide

\* Two calls of different accounts are under way at once, one already failed.
C8_Witness ==
    \E p, q \in Callers :
        /\ p # q
        /\ pc[p] = "waiting" /\ pc[q] = "done"
        /\ call[p].account # call[q].account
        /\ call[p].op = "UpdateProduct" /\ call[q].op = "UpdateProduct"
        /\ ret[q].err # NoErr
        /\ sent[p][1].token = call[p].account.AccessToken
        /\ sent[q][1].token = call[q].account.AccessToken

\* fields=id%2Cname%2Cprice%2Ccurrency%2Curl%2Cimage_url%2Cretailer_id%2Cdescription
FieldsQuery ==
    <<"f", "i", "e", "l", "d", "s", "=", "i", "d", "%", "2", "C", "n", "a", "m", "e", "%", "2", "C", "p", "r", "i", "c", "e", "%", "2", "C", "c", "u", "r", "r", "e", "n", "c", "y", "%", "2", "C", "u", "r", "l", "%", "2", "C", "i", "m", "a", "g", "e", "_", "u", "r", "l", "%", "2", "C", "r", "e", "t", "a", "i", "l", "e", "r", "_", "i", "d", "%", "2", "C", "d", "e", "s", "c", "r", "i", "p", "t", "i", "o", "n">>

\* The part of a URL after its first "?", and the part before it.
FirstMark(u) == CHOOSE i \in 1..Len(u) : u[i] = "?" /\ \A j \in 1..(i - 1) : u[j] # "?"
HasQuery(u) == \E i \in 1..Len(u) : u[i] = "?"
QueryPart(u) == SubSeq(u, FirstMark(u) + 1, Len(u))
PathPart(u) == SubSeq(u, 1, FirstMark(u) - 1)

NonDecodingOps == {"DeleteCatalog", "UpdateProduct", "DeleteProduct"}

\* C10: DeleteCatalog, UpdateProduct and DeleteProduct decode nothing: they
\* return no error exactly when doRequest returned none, whatever the bytes,
\* and never a decode error.
C10_NoDecodeOnDeleteAndUpdate ==
    \A p \in Callers :
        (Done(p) /\ call[p].op \in NonDecodingOps) =>
            /\ ret[p].err = NoErr <=> resp[p].err = NoErr
            /\ ~IsDecodeError(ret[p].err)
            /\ ~decoded[p]

\* DeleteProduct was answered with bytes that are not JSON and succeeded.
C10_Witness ==
    \E p \in Callers :
        /\ IsOp(p, "DeleteProduct") /\ Done(p)
        /\ resp[p].err = NoErr
        /\ resp[p].body.t = "malformed"
        /\ ret[p].err = NoErr

====
